---- MODULE Spec2Model ----
(***************************************************************************)
(* Event-driven backtesting engine of quant-platform                       *)
(* (src/model_testing/backtesting/engine.py): the Portfolio ledger, the    *)
(* ExecutionHandler and the BacktestEngine driver loop with its event      *)
(* queue.                                                                  *)
(*                                                                         *)
(* Python floats are modelled as exact rationals <<numerator, denominator>>*)
(* in lowest terms with a positive denominator, so equality of two         *)
(* amounts is equality of the pairs.  Rounding of IEEE doubles is not      *)
(* modelled.                                                               *)
(***************************************************************************)
EXTENDS Integers, Sequences, FiniteSets, TLC

(***************************************************************************)
(* Bounds of the model                                                     *)
(***************************************************************************)
\* dates of the loaded bar set are 1..MaxDays
MaxDays == 2
\* number of BacktestEngine.run calls on one engine instance
MaxRuns == 3
\* number of run calls of the repeated-run harness
TwinRuns == 4
\* longest list of signals one generate_signals call returns
MaxSignals == 2
\* direct Portfolio.execute_fill calls of the unit harness
MaxFills == 2
\* snapshots recorded in the unit harness
MaxHistory == 2
\* events the unit harness leaves on the queue before a drain
MaxQueue == 2
\* rows of an equity history handed to PerformanceMetrics directly
MaxPoints == 3

Symbols == {"A", "B"}
\* tickers in the order of the loader's ORDER BY ticker
SymOrder == <<"A", "B">>
Dates == 1..MaxDays

(***************************************************************************)
(* Exact arithmetic standing for Python float arithmetic                   *)
(***************************************************************************)
Abs(x) == IF x < 0 THEN -x ELSE x

RECURSIVE GCD(_, _)
GCD(a, b) == IF b = 0 THEN a ELSE GCD(b, a % b)

Rat(n, d) ==
    LET s == IF d < 0 THEN -1 ELSE 1
        g == GCD(Abs(n), Abs(d))
    IN  <<(s * n) \div g, (s * d) \div g>>

R(n) == <<n, 1>>
Zero == R(0)
One == R(1)

RAdd(a, b) == Rat(a[1] * b[2] + b[1] * a[2], a[2] * b[2])
RSub(a, b) == Rat(a[1] * b[2] - b[1] * a[2], a[2] * b[2])
RMul(a, b) == Rat(a[1] * b[1], a[2] * b[2])
RDiv(a, b) == Rat(a[1] * b[2], a[2] * b[1])
RLeq(a, b) == a[1] * b[2] <= b[1] * a[2]
RLt(a, b) == a[1] * b[2] < b[1] * a[2]
RMax(a, b) == IF RLeq(a, b) THEN b ELSE a
RAbs(a) == <<Abs(a[1]), a[2]>>
RNeg(a) == <<-a[1], a[2]>>

\* Optional[float] None
NoPrice == <<0, 0>>


(***************************************************************************)
(* State                                                                   *)
(***************************************************************************)
VARIABLES
    cfg,              \* BacktestEngine.config: the options the engine reads
    cash,             \* Portfolio.cash
    positions,        \* Portfolio.positions, a defaultdict(float): symbol -> quantity
    portfolio_value,  \* Portfolio.portfolio_value
    history,          \* Portfolio.history, the equity snapshots
    events,           \* BacktestEngine.events, a FIFO queue.Queue
    market_data,      \* BacktestEngine.market_data, the loaded rows
    current_time,     \* BacktestEngine.current_time
    results,          \* BacktestEngine.results
    pc,               \* position of the caller: "idle", "loop" (top of run's for), "drain" (_process_events)
    outcome,          \* how the last run call ended: "none", "running", "completed", "aborted"
    days,             \* dates the for loop of run has still to visit
    day_bars,         \* run's local market_data dict of the day being processed
    runs,             \* number of run calls made on this engine
    strategy,         \* the strategy object the caller hands to run
    initCalls,        \* history: strategy.initialize calls made by the current run call
    gsLog,            \* history: the generate_signals calls of the current run
    dayOrders,        \* history: OrderEvents enqueued by the drain of the current day, each with the position it was sized against
    fillCount,        \* history: number of fills applied by execute_fill
    fillSum,          \* history: sum of the cash deltas of the fills applied
    lastPx,           \* history: last price update_market_value was given, per symbol
    lastOp,           \* history: the operation of the last step, its inputs and the ledger before it
    lastPut           \* history: number of events on the queue when the last MarketEvent was enqueued

vars == <<cfg, cash, positions, portfolio_value, history, events, market_data,
          current_time, results, pc, outcome, days, day_bars, runs, gsLog,
          dayOrders, fillCount, fillSum, lastPx, lastOp, lastPut, strategy,
          initCalls>>

portfolioVars == <<cash, positions, portfolio_value, history>>
runVars == <<market_data, current_time, results, outcome, days, day_bars, runs,
            initCalls>>

\* Python None where an event, an order or a fill is expected
None == [type |-> "NONE"]

(***************************************************************************)
(* Events (the module events.py is not among the sources; the constructors *)
(* follow the keyword arguments the engine passes)                         *)
(***************************************************************************)
MarketEvent(timestamp, data) ==
    [type |-> "MARKET", timestamp |-> timestamp, data |-> data]

SignalEvent(timestamp, symbol, signal_type, price) ==
    [type |-> "SIGNAL", timestamp |-> timestamp, symbol |-> symbol,
     signal_type |-> signal_type, price |-> price]

OrderEvent(timestamp, symbol, quantity, direction) ==
    [type |-> "ORDER", timestamp |-> timestamp, symbol |-> symbol,
     quantity |-> quantity, direction |-> direction]

FillEvent(timestamp, symbol, quantity, direction, fill_price, commission) ==
    [type |-> "FILL", timestamp |-> timestamp, symbol |-> symbol,
     quantity |-> quantity, direction |-> direction,
     fill_price |-> fill_price, commission |-> commission]

\* MarketEvent.get_symbols: the keys of data, in insertion (ticker) order
get_symbols(event) ==
    SelectSeq(SymOrder, LAMBDA s : s \in DOMAIN event.data)

\* MarketEvent.get_price(symbol, "close"): None when the symbol has no bar
get_price(event, symbol) ==
    IF symbol \in DOMAIN event.data THEN event.data[symbol].close ELSE NoPrice

(***************************************************************************)
(* Portfolio                                                               *)
(***************************************************************************)
\* Portfolio.get_position: dict.get, inserts nothing
get_position(pos, symbol) ==
    IF symbol \in DOMAIN pos THEN pos[symbol] ELSE Zero

\* positions[symbol] += delta on a defaultdict(float): the key is created
PositionsAdd(pos, symbol, delta) ==
    [k \in DOMAIN pos \cup {symbol} |->
        IF k = symbol THEN RAdd(get_position(pos, symbol), delta) ELSE pos[k]]

\* reading positions[symbol] on a defaultdict(float): the key is created with 0.0
PositionsTouch(pos, symbol) ==
    [k \in DOMAIN pos \cup {symbol} |-> IF k \in DOMAIN pos THEN pos[k] ELSE Zero]

\* a slip of execute_fill: the commission of a Sell is added to the proceeds
execute_fill_cash_fee_added(c, fill) ==
    IF fill.direction = "BUY"
    THEN RSub(c, RAdd(RMul(fill.quantity, fill.fill_price), fill.commission))
    ELSE RAdd(c, RAdd(RMul(fill.quantity, fill.fill_price), fill.commission))

\* Portfolio.execute_fill: cash after the fill (cost and proceeds)
execute_fill_cash(c, fill) ==
    IF fill.direction = "BUY"
    THEN RSub(c, RAdd(RMul(fill.quantity, fill.fill_price), fill.commission))
    ELSE RAdd(c, RSub(RMul(fill.quantity, fill.fill_price), fill.commission))

\* a slip of execute_fill: a Sell increases the position
execute_fill_positions_sell_added(pos, fill) ==
    PositionsAdd(pos, fill.symbol, fill.quantity)

\* Portfolio.execute_fill: the positions map after the fill
execute_fill_positions(pos, fill) ==
    IF fill.direction = "BUY"
    THEN PositionsAdd(pos, fill.symbol, fill.quantity)
    ELSE PositionsAdd(pos, fill.symbol, RNeg(fill.quantity))

\* a slip of can_afford: the commission is left out of the cost of a Buy
can_afford_without_commission(c, pos, commission, order, current_price) ==
    IF order.direction = "BUY"
    THEN RLeq(RMul(order.quantity, current_price), c)
    ELSE RLeq(order.quantity, get_position(pos, order.symbol))

\* Portfolio.can_afford: the value returned
can_afford(c, pos, commission, order, current_price) ==
    IF order.direction = "BUY"
    THEN RLeq(RMul(RMul(order.quantity, current_price), RAdd(One, commission)), c)
    ELSE RLeq(order.quantity, get_position(pos, order.symbol))

\* Portfolio.can_afford: the positions map it leaves behind
can_afford_positions(pos, order) ==
    IF order.direction = "BUY" THEN pos ELSE PositionsTouch(pos, order.symbol)

RECURSIVE SumValue(_, _, _)
SumValue(pos, prices, keys) ==
    IF keys = {} THEN Zero
    ELSE LET k == CHOOSE x \in keys : TRUE
         IN  RAdd(RMul(pos[k], prices[k]), SumValue(pos, prices, keys \ {k}))

\* the loop of update_market_value over positions.items()
PositionValue(pos, current_prices) ==
    SumValue(pos, current_prices,
             {s \in DOMAIN pos : s \in DOMAIN current_prices /\ pos[s] # Zero})

Snapshot(timestamp, c, pos, current_prices) ==
    [timestamp |-> timestamp, cash |-> c,
     position_value |-> PositionValue(pos, current_prices),
     total_value |-> RAdd(c, PositionValue(pos, current_prices)),
     positions |-> pos]

(***************************************************************************)
(* ExecutionHandler                                                        *)
(***************************************************************************)
\* the minimum commission execute_order writes into max(..., 1.0)
MinimumCommission == 1

\* a slip of execute_order: slippage moves the price in the trader's favour
FillPriceFavourable(direction, current_price, slippage) ==
    IF direction = "BUY"
    THEN RMul(current_price, RSub(One, slippage))
    ELSE RMul(current_price, RAdd(One, slippage))

\* execute_order: the close moved by the slippage rate
FillPrice(direction, current_price, slippage) ==
    IF direction = "BUY"
    THEN RMul(current_price, RAdd(One, slippage))
    ELSE RMul(current_price, RSub(One, slippage))

Commission(quantity, fill_price, commission) ==
    RMax(RMul(RAbs(RMul(quantity, fill_price)), commission), R(MinimumCommission))

\* ExecutionHandler.execute_order: a FillEvent, or None without a close price
execute_order(order, market_event, commission, slippage) ==
    LET current_price == get_price(market_event, order.symbol)
        fill_price == FillPrice(order.direction, current_price, slippage)
    IN  IF current_price = NoPrice THEN None
        ELSE FillEvent(market_event.timestamp, order.symbol, order.quantity,
                       order.direction, fill_price,
                       Commission(order.quantity, fill_price, commission))

(***************************************************************************)
(* Signal router: _handle_signal_event                                     *)
(***************************************************************************)
\* the price _handle_signal_event falls back to: event.price or 100.0
FallbackPrice == 100

SizingPrice(price) ==
    IF price = NoPrice \/ price = Zero THEN R(FallbackPrice) ELSE price

TargetQuantity(pv, position_size, price) ==
    RDiv(RMul(pv, position_size), SizingPrice(price))

\* a slip of _handle_signal_event: a Buy signal is acted on only when short
SignalOrderStrict(event, pv, pos, position_size) ==
    LET target_quantity == TargetQuantity(pv, position_size, event.price)
        current_position == get_position(pos, event.symbol)
    IN  IF event.signal_type = 1
        THEN IF RLt(current_position, Zero)
             THEN OrderEvent(event.timestamp, event.symbol, target_quantity, "BUY")
             ELSE None
        ELSE IF event.signal_type = -1
        THEN IF RLeq(Zero, current_position)
             THEN OrderEvent(event.timestamp, event.symbol,
                             IF current_position = Zero THEN target_quantity
                                                        ELSE current_position,
                             "SELL")
             ELSE None
        ELSE None

\* the order _handle_signal_event enqueues for a signal event, or None
SignalOrder(event, pv, pos, position_size) ==
    LET target_quantity == TargetQuantity(pv, position_size, event.price)
        current_position == get_position(pos, event.symbol)
    IN  IF event.signal_type = 1
        THEN IF RLeq(current_position, Zero)
             THEN OrderEvent(event.timestamp, event.symbol, target_quantity, "BUY")
             ELSE None
        ELSE IF event.signal_type = -1
        THEN IF RLeq(Zero, current_position)
             THEN OrderEvent(event.timestamp, event.symbol,
                             IF current_position = Zero THEN target_quantity
                                                        ELSE current_position,
                             "SELL")
             ELSE None
        ELSE None

(***************************************************************************)
(* Order handling: the scan of the queue for a MarketEvent                 *)
(***************************************************************************)
\* number of events _handle_order_event takes off the queue: up to and
\* including the first MarketEvent, or all of them
ScanLen(q) ==
    IF \E i \in 1..Len(q) : q[i].type = "MARKET"
    THEN CHOOSE i \in 1..Len(q) :
            /\ q[i].type = "MARKET"
            /\ \A j \in 1..(i - 1) : q[j].type # "MARKET"
    ELSE Len(q)

\* the MarketEvent the scan found, or None
ScanMarket(q) ==
    IF ScanLen(q) > 0 /\ q[ScanLen(q)].type = "MARKET" THEN q[ScanLen(q)] ELSE None

\* the queue after the scanned events are put back at its tail
ScanRequeue(q) ==
    SubSeq(q, ScanLen(q) + 1, Len(q)) \o SubSeq(q, 1, ScanLen(q))

\* what _handle_order_event does with an order, given the queue behind it:
\* "no_market", "no_price", "cannot_afford" or "filled"
OrderVerdict(order, q, c, pos, commission) ==
    LET market_event == ScanMarket(q)
    IN  IF market_event = None THEN "no_market"
        ELSE IF get_price(market_event, order.symbol) = NoPrice THEN "no_price"
        ELSE IF ~can_afford(c, pos, commission, order,
                            get_price(market_event, order.symbol))
        THEN "cannot_afford"
        ELSE "filled"

(***************************************************************************)
(* Market data: what DataLoader.prepare_backtest_data hands to load_data   *)
(***************************************************************************)
\* close price of a symbol on a date (cleaned data has close > 0)
CloseOf(symbol, date) ==
    IF symbol = "A" THEN (IF date % 2 = 1 THEN 100 ELSE 50) ELSE 50

Row(symbol, date) == [ticker |-> symbol, date |-> date, close |-> R(CloseOf(symbol, date))]

RECURSIVE DateRows(_, _, _)
DateRows(cells, symbol, d) ==
    IF d > MaxDays THEN <<>>
    ELSE (IF <<symbol, d>> \in cells THEN <<Row(symbol, d)>> ELSE <<>>)
         \o DateRows(cells, symbol, d + 1)

RECURSIVE TickerRows(_, _)
TickerRows(cells, i) ==
    IF i > Len(SymOrder) THEN <<>>
    ELSE DateRows(cells, SymOrder[i], 1) \o TickerRows(cells, i + 1)

\* the rows of a bar set, sorted by ticker and date as _clean_data leaves them
Rows(cells) == TickerRows(cells, 1)

\* the bar sets a load may return: none, one symbol, both symbols, a symbol
\* missing on the first or on the last date
DataCells ==
    {cells \in SUBSET (Symbols \X Dates) :
        \/ cells = {}
        \/ cells = {"A"} \X Dates
        \/ cells = Symbols \X Dates
        \/ cells = (Symbols \X Dates) \ {<<"A", 1>>}
        \/ cells = (Symbols \X Dates) \ {<<"B", MaxDays>>}
        \/ cells = Symbols \X {1}}

DataSets == {Rows(cells) : cells \in DataCells}

RECURSIVE SortedDates(_)
SortedDates(ds) ==
    IF ds = {} THEN <<>>
    ELSE LET m == CHOOSE x \in ds : \A y \in ds : x <= y
         IN  <<m>> \o SortedDates(ds \ {m})

RECURSIVE FirstSeen(_, _)
FirstSeen(rows, seen) ==
    IF rows = <<>> THEN <<>>
    ELSE IF Head(rows).date \in seen THEN FirstSeen(Tail(rows), seen)
    ELSE <<Head(rows).date>> \o FirstSeen(Tail(rows), seen \cup {Head(rows).date})

\* groupby('date', sort=False): the group keys in order of first appearance
GroupDatesUnsorted(rows) == FirstSeen(rows, {})

\* market_data.groupby('date'): the group keys, sorted ascending
GroupDates(rows) == SortedDates({rows[i].date : i \in 1..Len(rows)})

\* the rows of one group
DayData(rows, date) == SelectSeq(rows, LAMBDA r : r.date = date)

\* the dict run builds from the day's rows (a later row of a ticker
\* overwrites an earlier one); src records the date of the row used
DayBars(day_data) ==
    [s \in {day_data[i].ticker : i \in 1..Len(day_data)} |->
        LET i == CHOOSE j \in 1..Len(day_data) :
                    /\ day_data[j].ticker = s
                    /\ \A k \in (j + 1)..Len(day_data) : day_data[k].ticker # s
        IN  [close |-> day_data[i].close, src |-> day_data[i].date]]

\* current_prices of run: symbol -> close
ClosePrices(bars) == [s \in DOMAIN bars |-> bars[s].close]

(***************************************************************************)
(* Strategy: what generate_signals may return for one bar                  *)
(***************************************************************************)
\* SignalType: BUY = 1, SELL = -1, HOLD = 0
SignalTypes == {1, -1, 0}

\* the signal types the strategy of the runs returns
RunSignalTypes == {1, -1}

\* a returned signal carries the bar's close as its price, as the signals of
\* EnhancedMomentumStrategy do
SignalShapes == [signal_type : RunSignalTypes, priced : {TRUE}]

ListShapes == UNION {[1..n -> SignalShapes] : n \in 0..MaxSignals}

\* the SignalEvents _handle_market_event enqueues for one returned list
SignalEvents(timestamp, symbol, close, shapes) ==
    [i \in 1..Len(shapes) |->
        SignalEvent(timestamp, symbol, shapes[i].signal_type,
                    IF shapes[i].priced THEN close ELSE NoPrice)]

RECURSIVE Enqueued(_, _, _, _)
\* the events enqueued for the first n symbols of the event
Enqueued(event, syms, out, n) ==
    IF n = 0 THEN <<>>
    ELSE Enqueued(event, syms, out, n - 1)
         \o SignalEvents(event.timestamp, syms[n], event.data[syms[n]].close, out[syms[n]])

\* the generate_signals calls made for the first n symbols of the event
GsCalls(event, syms, n, now) ==
    [i \in 1..n |-> [timestamp |-> event.timestamp, symbol |-> syms[i],
                     bar_date |-> event.data[syms[i]].src, day |-> now]]

\* the cash delta of a fill as the ledger contract states it
CashDelta(fill) ==
    IF fill.direction = "BUY"
    THEN RNeg(RAdd(RMul(fill.quantity, fill.fill_price), fill.commission))
    ELSE RSub(RMul(fill.quantity, fill.fill_price), fill.commission)

(***************************************************************************)
(* Construction: BacktestEngine.__init__ and Portfolio.__init__            *)
(***************************************************************************)
EmptyMap == [k \in {} |-> Zero]

\* lastOp of a step that records nothing but its kind
Op(kind) == [type |-> kind]

\* the options of BacktestConfig and RiskConfig the engine is built with
Config(initial_capital, commission, slippage, min_commission, max_position_size) ==
    [initial_capital |-> initial_capital, commission |-> commission,
     slippage |-> slippage, min_commission |-> min_commission,
     max_position_size |-> max_position_size]

\* Config.validate, over the options of the model (the others keep their
\* defaults, which pass)
validate(c) ==
    /\ ~RLeq(c.initial_capital, Zero)
    /\ ~RLt(c.commission, Zero)
    /\ ~RLt(c.slippage, Zero)
    /\ RLt(Zero, c.max_position_size) /\ RLeq(c.max_position_size, One)

\* configurations of the engine runs; the last has max_position_size = 2,
\* which Config.validate rejects
RunConfigs ==
    {Config(R(1000), Rat(1, 100), Zero, One, m) : m \in {Rat(1, 10), One, R(2)}}

\* configurations of the Portfolio harness
LedgerConfigs ==
    {Config(R(100000), Rat(1, 100), Zero, One, Rat(1, 10))}

\* configurations of the handler harness; the second sets min_commission = 5
UnitConfigs ==
    {Config(R(100000), Rat(1, 100), Zero, One, Rat(1, 10)),
     Config(R(100), Rat(1, 100), Rat(1, 100), R(5), One)}

\* what a deterministic strategy does with the bar of a symbol: it raises,
\* or it returns a list of signals
StrategyReplies ==
    {[raises |-> FALSE, signals |-> l] : l \in ListShapes}
        \cup {[raises |-> TRUE, signals |-> <<>>]}

\* deterministic strategies: the reply depends on the symbol of the bar only
Strategies == [Symbols -> StrategyReplies]

\* a strategy whose replies are left open: each generate_signals call may
\* return any list or raise
AnyStrategy == [kind |-> "any"]

InitWith(configs, strategies) ==
    /\ cfg \in configs
    /\ strategy \in strategies
    /\ initCalls = 0
    /\ cash = cfg.initial_capital
    /\ positions = EmptyMap
    /\ portfolio_value = cfg.initial_capital
    /\ history = <<>>
    /\ events = <<>>
    /\ market_data = <<>>
    /\ current_time = 0
    /\ results = None
    /\ pc = "idle"
    /\ outcome = "none"
    /\ days = <<>>
    /\ day_bars = EmptyMap
    /\ runs = 0
    /\ gsLog = <<>>
    /\ dayOrders = <<>>
    /\ fillCount = 0
    /\ fillSum = Zero
    /\ lastPx = EmptyMap
    /\ lastOp = Op("NONE")
    /\ lastPut = 0

Init == InitWith(RunConfigs, {AnyStrategy})

(***************************************************************************)
(* Portfolio operations as steps                                           *)
(***************************************************************************)
\* Portfolio.execute_fill(fill)
ExecuteFill(fill) ==
    /\ cash' = execute_fill_cash(cash, fill)
    /\ positions' = execute_fill_positions(positions, fill)
    /\ UNCHANGED <<portfolio_value, history>>
    /\ fillCount' = fillCount + 1
    /\ fillSum' = RAdd(fillSum, CashDelta(fill))
    /\ lastOp' = [type |-> "FILL", fill |-> fill, cash |-> cash,
                  positions |-> positions, history |-> history]
    /\ UNCHANGED lastPx

\* Portfolio.update_market_value(current_prices, timestamp)
UpdateMarketValue(current_prices, timestamp) ==
    /\ portfolio_value' = RAdd(cash, PositionValue(positions, current_prices))
    /\ history' = Append(history, Snapshot(timestamp, cash, positions, current_prices))
    /\ UNCHANGED <<cash, positions>>
    /\ lastPx' = [s \in DOMAIN lastPx \cup DOMAIN current_prices |->
                    IF s \in DOMAIN current_prices THEN current_prices[s] ELSE lastPx[s]]
    /\ lastOp' = [type |-> "SNAPSHOT", prices |-> current_prices]
    /\ UNCHANGED <<fillCount, fillSum>>

\* Portfolio.can_afford(order, current_price)
CanAfford(order, current_price) ==
    /\ positions' = can_afford_positions(positions, order)
    /\ UNCHANGED <<cash, portfolio_value, history>>
    /\ lastOp' = [type |-> "QUERY", order |-> order, price |-> current_price,
                  cash |-> cash, positions |-> positions,
                  portfolio_value |-> portfolio_value, history |-> history,
                  result |-> can_afford(cash, positions, cfg.commission, order,
                                        current_price)]
    /\ UNCHANGED <<fillCount, fillSum, lastPx>>

(***************************************************************************)
(* _process_events: one iteration of its loop per step                     *)
(***************************************************************************)
\* _handle_market_event: generate_signals is called for the symbols of the
\* event in turn; it may raise for one of them, which ends the drain and
\* the run with the signals of the earlier symbols left on the queue.
\* out is what the calls return per symbol, raiseAt the position of the
\* symbol whose call raises (0: none)
MarketEventStep(out, raiseAt) ==
    /\ pc = "drain" /\ events # <<>> /\ Head(events).type = "MARKET"
    /\ LET event == Head(events)
           syms == get_symbols(event)
           returned == IF raiseAt = 0 THEN Len(syms) ELSE raiseAt - 1
           called == IF raiseAt = 0 THEN Len(syms) ELSE raiseAt
       IN  /\ raiseAt <= Len(syms)
           /\ events' = Tail(events) \o Enqueued(event, syms, out, returned)
           /\ gsLog' = gsLog \o GsCalls(event, syms, called, current_time)
           /\ pc' = IF raiseAt = 0 THEN "drain" ELSE "idle"
           /\ outcome' = IF raiseAt = 0 THEN outcome ELSE "aborted"
           /\ days' = IF raiseAt = 0 THEN days ELSE <<>>
           /\ day_bars' = IF raiseAt = 0 THEN day_bars ELSE EmptyMap
           /\ dayOrders' = IF raiseAt = 0 THEN dayOrders ELSE <<>>
           /\ lastOp' = [type |-> "MARKET", raised |-> raiseAt # 0]
    /\ UNCHANGED <<cfg, strategy, portfolioVars, market_data, current_time, results,
                   runs, initCalls, fillCount, fillSum, lastPx, lastPut>>

\* _handle_market_event with a strategy whose replies are left open
HandleMarketEvent ==
    \E out \in [Symbols -> ListShapes], raiseAt \in 0..Len(SymOrder) :
        MarketEventStep(out, raiseAt)

\* _handle_signal_event(event) with q the queue at the time of the call
SignalEventStep(event, q) ==
    /\ LET order == SignalOrder(event, portfolio_value, positions, cfg.max_position_size)
       IN  /\ events' = IF order = None THEN q ELSE Append(q, order)
           /\ lastOp' = [type |-> "SIGNAL", event |-> event,
                         position |-> get_position(positions, event.symbol),
                         portfolio_value |-> portfolio_value, order |-> order]
    /\ UNCHANGED <<cfg, strategy, portfolioVars, runVars, pc, gsLog, fillCount,
                   fillSum, lastPx, lastPut>>

\* _handle_signal_event on the event at the head of the queue
HandleSignalEvent ==
    /\ pc = "drain" /\ events # <<>> /\ Head(events).type = "SIGNAL"
    /\ SignalEventStep(Head(events), Tail(events))
    /\ dayOrders' = IF lastOp'.order = None THEN dayOrders
                    ELSE Append(dayOrders, [order |-> lastOp'.order,
                                            position |-> lastOp'.position])

\* a slip of _handle_order_event: an order that was not filled is put back
\* on the queue to be tried again
QueueAfterOrderRetry(order, q, fill) ==
    IF fill = None THEN Append(ScanRequeue(q), order)
    ELSE Append(ScanRequeue(q), fill)

\* the queue _handle_order_event leaves behind: the scanned events are put
\* back, the order is gone, and the fill, if any, is appended
QueueAfterOrder(order, q, fill) ==
    IF fill = None THEN ScanRequeue(q) ELSE Append(ScanRequeue(q), fill)

\* _handle_order_event on the event at the head of the queue
HandleOrderEvent ==
    /\ pc = "drain" /\ events # <<>> /\ Head(events).type = "ORDER"
    /\ LET order == Head(events)
           q == Tail(events)
           verdict == OrderVerdict(order, q, cash, positions, cfg.commission)
           fill == IF verdict = "filled"
                   THEN execute_order(order, ScanMarket(q), cfg.commission, cfg.slippage)
                   ELSE None
       IN  /\ events' = QueueAfterOrder(order, q, fill)
           /\ positions' = IF verdict \in {"cannot_afford", "filled"}
                           THEN can_afford_positions(positions, order)
                           ELSE positions
           /\ lastOp' = [type |-> "ORDER", order |-> order, verdict |-> verdict,
                         queue |-> q, cash |-> cash, positions |-> positions,
                         fill |-> fill]
    /\ UNCHANGED <<cfg, strategy, cash, portfolio_value, history, runVars, pc, gsLog,
                   dayOrders, fillCount, fillSum, lastPx, lastPut>>

\* _handle_fill_event on the event at the head of the queue
HandleFillEvent ==
    /\ pc = "drain" /\ events # <<>> /\ Head(events).type = "FILL"
    /\ ExecuteFill(Head(events))
    /\ events' = Tail(events)
    /\ UNCHANGED <<cfg, strategy, runVars, pc, gsLog, dayOrders, lastPut>>

(***************************************************************************)
(* PerformanceMetrics (metrics.py). Values are the rationals of the        *)
(* arithmetic above, numpy's nan, inf and -inf, and, for a square root or  *)
(* a power that has no rational value, the expression itself               *)
(***************************************************************************)
NaN == <<0, 0>>
Inf == <<1, 0>>
NegInf == <<-1, 0>>

IsFinite(x) == x[2] # 0

Sign(x) == IF x[1] > 0 THEN 1 ELSE IF x[1] < 0 THEN -1 ELSE 0

SignedInf(s) == IF s > 0 THEN Inf ELSE IF s < 0 THEN NegInf ELSE NaN

\* numpy float64 arithmetic on rationals, nan and the infinities
FNeg(a) == <<-a[1], a[2]>>

FAdd(a, b) ==
    IF a = NaN \/ b = NaN THEN NaN
    ELSE IF ~IsFinite(a) /\ ~IsFinite(b) THEN (IF a = b THEN a ELSE NaN)
    ELSE IF ~IsFinite(a) THEN a
    ELSE IF ~IsFinite(b) THEN b
    ELSE RAdd(a, b)

FSub(a, b) == FAdd(a, FNeg(b))

FMul(a, b) ==
    IF a = NaN \/ b = NaN THEN NaN
    ELSE IF IsFinite(a) /\ IsFinite(b) THEN RMul(a, b)
    ELSE SignedInf(Sign(a) * Sign(b))

\* a zero denominator gives inf, -inf or nan (a RuntimeWarning, no exception)
FDiv(a, b) ==
    IF a = NaN \/ b = NaN THEN NaN
    ELSE IF ~IsFinite(a)
    THEN (IF ~IsFinite(b) THEN NaN
          ELSE SignedInf(Sign(a) * (IF Sign(b) < 0 THEN -1 ELSE 1)))
    ELSE IF ~IsFinite(b) THEN Zero
    ELSE IF b = Zero THEN SignedInf(Sign(a))
    ELSE RDiv(a, b)

\* an expression without a rational value: a finite real, kept unevaluated
Sym(op, a, b) == <<op, a, b>>

IsExact(x) == Len(x) = 2

XAdd(a, b) ==
    IF IsExact(a) /\ IsExact(b) THEN FAdd(a, b)
    ELSE IF a = NaN \/ b = NaN THEN NaN
    ELSE IF IsExact(a) /\ ~IsFinite(a) THEN a
    ELSE IF IsExact(b) /\ ~IsFinite(b) THEN b
    ELSE Sym("add", a, b)

XSub(a, b) ==
    IF IsExact(a) /\ IsExact(b) THEN FSub(a, b)
    ELSE IF a = NaN \/ b = NaN THEN NaN
    ELSE IF IsExact(a) /\ ~IsFinite(a) THEN a
    ELSE IF IsExact(b) /\ ~IsFinite(b) THEN FNeg(b)
    ELSE Sym("sub", a, b)

XMul(a, b) ==
    IF IsExact(a) /\ IsExact(b) THEN FMul(a, b)
    ELSE IF a = NaN \/ b = NaN THEN NaN
    ELSE IF a = Zero \/ b = Zero THEN Zero
    ELSE Sym("mul", a, b)

XDiv(a, b) ==
    IF IsExact(a) /\ IsExact(b) THEN FDiv(a, b)
    ELSE IF a = NaN \/ b = NaN THEN NaN
    ELSE IF a = Zero THEN Zero
    ELSE Sym("div", a, b)

\* np.sqrt of a variance
SqrtOf(v) ==
    IF IsExact(v) /\ (~IsFinite(v) \/ v = Zero) THEN v
    ELSE Sym("sqrt", v, Zero)

\* base ** exponent - 1 for a positive exponent
PowerMinusOne(base, exponent) ==
    IF base = NaN THEN NaN
    ELSE IF ~IsFinite(base) THEN Inf
    ELSE IF base = One THEN Zero
    ELSE IF base = Zero THEN R(-1)
    ELSE IF RLt(base, Zero) /\ exponent[2] # 1 THEN NaN
    ELSE Sym("pow", base, exponent)

\* risk_free_rate: float = 0.02
RiskFreeRate == Rat(1, 50)

\* trading days per year
TradingDays == 252

\* days per year: 365.25
DaysPerYear == Rat(1461, 4)

RECURSIVE FSum(_, _)
\* the sum of the first n values
FSum(xs, n) == IF n = 0 THEN Zero ELSE FAdd(FSum(xs, n - 1), xs[n])

\* Series.mean
Mean(xs) == FDiv(FSum(xs, Len(xs)), R(Len(xs)))

\* Series.cov(other) with ddof = 1: nan below two observations and with an
\* infinite value (its deviation from the mean is inf - inf), 0 when one of
\* the series is constant, else the unevaluated covariance
Cov(xs, ys) ==
    IF Len(xs) < 2 THEN NaN
    ELSE IF \E i \in 1..Len(xs) : ~IsFinite(xs[i]) \/ ~IsFinite(ys[i]) THEN NaN
    ELSE IF \/ \A i \in 1..Len(xs) : xs[i] = xs[1]
            \/ \A i \in 1..Len(ys) : ys[i] = ys[1]
    THEN Zero
    ELSE Sym("cov", xs, ys)

\* Series.var with ddof = 1; Series.std is its square root
Var(xs) == Cov(xs, xs)

\* the DataFrame of a history: row i of the list gets index label i
Frame(rows) ==
    [i \in 1..Len(rows) |->
        [label |-> i, timestamp |-> rows[i].timestamp,
         total_value |-> rows[i].total_value]]

\* the place of row i after sorting: behind the rows of an earlier
\* timestamp and behind the earlier rows of the same timestamp
SortedPlace(frame, i) ==
    1 + Cardinality({j \in 1..Len(frame) :
                        \/ frame[j].timestamp < frame[i].timestamp
                        \/ frame[j].timestamp = frame[i].timestamp /\ j < i})

\* sort_values('timestamp'); rows of equal timestamp keep their order (numpy
\* sorts short arrays by insertion)
SortValues(frame) ==
    [k \in 1..Len(frame) |->
        frame[CHOOSE i \in 1..Len(frame) : SortedPlace(frame, i) = k]]

\* pct_change: value / previous value - 1, nan in the first row
PctChange(frame) ==
    [i \in 1..Len(frame) |->
        IF i = 1 THEN NaN
        ELSE FSub(FDiv(frame[i].total_value, frame[i - 1].total_value), One)]

\* PerformanceMetrics(portfolio_history): the frame sorted by timestamp,
\* with the daily_return column
PerformanceMetrics(rows) ==
    LET frame == SortValues(Frame(rows))
        returns == PctChange(frame)
    IN  [i \in 1..Len(frame) |->
            [label |-> frame[i].label, timestamp |-> frame[i].timestamp,
             total_value |-> frame[i].total_value, daily_return |-> returns[i]]]

\* portfolio_history['daily_return'].dropna(), as rows
DailyReturnRows(m) == SelectSeq(m, LAMBDA row : row.daily_return # NaN)

DailyReturns(m) ==
    [i \in 1..Len(DailyReturnRows(m)) |-> DailyReturnRows(m)[i].daily_return]

\* total_return(): no branch for initial_value = 0
total_return(m) ==
    IF Len(m) < 2 THEN Zero
    ELSE FDiv(FSub(m[Len(m)].total_value, m[1].total_value), m[1].total_value)

\* (end_date - start_date).days / 365.25
Years(m) == RDiv(R(m[Len(m)].timestamp - m[1].timestamp), DaysPerYear)

annualized_return(m) ==
    IF Len(m) < 2 THEN Zero
    ELSE IF RLeq(Years(m), Zero) THEN Zero
    ELSE PowerMinusOne(FAdd(One, total_return(m)), RDiv(One, Years(m)))

\* volatility(annualized=True): std of the daily returns times sqrt(252)
volatility(m) ==
    IF Len(m) < 2 THEN Zero
    ELSE SqrtOf(XMul(Var(DailyReturns(m)), R(TradingDays)))

sharpe_ratio(m) ==
    IF Len(m) < 2 THEN Zero
    ELSE LET annual_return == annualized_return(m)
             annual_vol == volatility(m)
         IN  IF annual_vol = Zero THEN Zero
             ELSE XDiv(XSub(annual_return, RiskFreeRate), annual_vol)

\* expanding().max() at row i
ExpandingMax(m, i) ==
    CHOOSE v \in {m[j].total_value : j \in 1..i} :
        \A w \in {m[j].total_value : j \in 1..i} : RLeq(w, v)

\* (portfolio_values - rolling_max) / rolling_max, row by row
Drawdown(m) ==
    [i \in 1..Len(m) |->
        FDiv(FSub(m[i].total_value, ExpandingMax(m, i)), ExpandingMax(m, i))]

\* Series.min: nan is skipped; nan when nothing is left
SeriesMin(xs) ==
    LET present == {i \in 1..Len(xs) : xs[i] # NaN}
    IN  IF present = {} THEN NaN
        ELSE xs[CHOOSE i \in present :
                    \A j \in present :
                        xs[i] = NegInf \/ xs[j] = Inf
                            \/ (IsFinite(xs[i]) /\ IsFinite(xs[j])
                                    /\ RLeq(xs[i], xs[j]))]

\* a drawdown measured against the highest value of the whole history
max_drawdown_from_peak(m) ==
    IF Len(m) < 2 THEN Zero
    ELSE RAbs(SeriesMin([i \in 1..Len(m) |->
                    FDiv(FSub(m[i].total_value, ExpandingMax(m, Len(m))),
                         ExpandingMax(m, Len(m)))]))

\* max_drawdown(): no branch for rolling_max = 0
max_drawdown(m) ==
    IF Len(m) < 2 THEN Zero ELSE RAbs(SeriesMin(Drawdown(m)))

\* annual_ret > 0, for the values annualized_return returns
IsPositive(x) ==
    IF IsExact(x) THEN Sign(x) > 0 ELSE x[1] = "pow" /\ RLt(One, x[2])

calmar_ratio(m) ==
    LET annual_ret == annualized_return(m)
        max_dd == max_drawdown(m)
    IN  IF max_dd = Zero
        THEN (IF IsPositive(annual_ret) THEN Inf ELSE Zero)
        ELSE XDiv(annual_ret, max_dd)

\* the index labels portfolio returns and benchmark share, in ascending
\* order: DataFrame({...}).dropna()
AlignedLabels(m, benchmark_returns) ==
    SelectSeq([l \in 1..Len(m) |-> l],
              LAMBDA l : /\ l \in DOMAIN benchmark_returns
                         /\ \E i \in 1..Len(m) :
                              m[i].label = l /\ m[i].daily_return # NaN)

ReturnAt(m, l) == m[CHOOSE i \in 1..Len(m) : m[i].label = l].daily_return

AlignedPortfolio(m, benchmark_returns) ==
    [k \in 1..Len(AlignedLabels(m, benchmark_returns)) |->
        ReturnAt(m, AlignedLabels(m, benchmark_returns)[k])]

AlignedBenchmark(m, benchmark_returns) ==
    [k \in 1..Len(AlignedLabels(m, benchmark_returns)) |->
        benchmark_returns[AlignedLabels(m, benchmark_returns)[k]]]

beta(m, benchmark_returns) ==
    IF Len(m) < 2 THEN Zero
    ELSE IF Len(AlignedLabels(m, benchmark_returns)) < 2 THEN Zero
    ELSE LET covariance == Cov(AlignedPortfolio(m, benchmark_returns),
                               AlignedBenchmark(m, benchmark_returns))
             benchmark_variance == Var(AlignedBenchmark(m, benchmark_returns))
         IN  IF benchmark_variance = Zero THEN Zero
             ELSE XDiv(covariance, benchmark_variance)

\* what Python raises for 252 / 0
ZeroDivisionError == <<"ZeroDivisionError">>

RECURSIVE GrowthProduct(_, _)
\* (1 + benchmark_returns).prod() over the labels in S
GrowthProduct(benchmark_returns, S) ==
    IF S = {} THEN One
    ELSE LET l == CHOOSE l \in S : TRUE
         IN  FMul(FAdd(One, benchmark_returns[l]),
                  GrowthProduct(benchmark_returns, S \ {l}))

\* alpha(): no branch for an empty benchmark; 252 / len(benchmark_returns)
\* divides two Python ints
alpha(m, benchmark_returns) ==
    LET portfolio_return == annualized_return(m)
        b == beta(m, benchmark_returns)
        n == Cardinality(DOMAIN benchmark_returns)
    IN  IF n = 0 THEN ZeroDivisionError
        ELSE LET benchmark_return ==
                     PowerMinusOne(GrowthProduct(benchmark_returns,
                                                 DOMAIN benchmark_returns),
                                   Rat(TradingDays, n))
             IN  XSub(portfolio_return,
                      XAdd(RiskFreeRate,
                           XMul(b, XSub(benchmark_return, RiskFreeRate))))

\* excess_returns = aligned_portfolio - aligned_benchmark
ExcessReturns(m, benchmark_returns) ==
    [k \in 1..Len(AlignedLabels(m, benchmark_returns)) |->
        FSub(AlignedPortfolio(m, benchmark_returns)[k],
             AlignedBenchmark(m, benchmark_returns)[k])]

\* tracking_error = excess_returns.std() * np.sqrt(252)
TrackingError(m, benchmark_returns) ==
    SqrtOf(XMul(Var(ExcessReturns(m, benchmark_returns)), R(TradingDays)))

information_ratio(m, benchmark_returns) ==
    IF Len(m) < 2 THEN Zero
    ELSE IF Len(AlignedLabels(m, benchmark_returns)) < 2 THEN Zero
    ELSE LET excess_returns == ExcessReturns(m, benchmark_returns)
             tracking_error == TrackingError(m, benchmark_returns)
         IN  IF tracking_error = Zero THEN Zero
             ELSE XDiv(FMul(Mean(excess_returns), R(TradingDays)), tracking_error)

\* the denominators of the divisions that total_return, pct_change,
\* annualized_return, sharpe_ratio, max_drawdown and calmar_ratio evaluate
Denominators(m) ==
    {m[i - 1].total_value : i \in 2..Len(m)}
        \cup (IF Len(m) < 2 THEN {}
              ELSE {m[1].total_value}
                     \cup {ExpandingMax(m, i) : i \in 1..Len(m)}
                     \cup (IF RLeq(Years(m), Zero) THEN {} ELSE {Years(m)})
                     \cup (IF volatility(m) = Zero THEN {} ELSE {volatility(m)}))
        \cup (IF max_drawdown(m) = Zero THEN {} ELSE {max_drawdown(m)})

\* the denominators of the divisions that beta, alpha and information_ratio
\* evaluate themselves
BenchmarkDenominators(m, benchmark_returns) ==
    {R(Cardinality(DOMAIN benchmark_returns))}
        \cup (IF Len(m) < 2 \/ Len(AlignedLabels(m, benchmark_returns)) < 2
              THEN {}
              ELSE LET bv == Var(AlignedBenchmark(m, benchmark_returns))
                       te == TrackingError(m, benchmark_returns)
                   IN  (IF bv = Zero THEN {} ELSE {bv})
                           \cup (IF te = Zero THEN {} ELSE {te}))

(***************************************************************************)
(* BacktestEngine.run                                                      *)
(***************************************************************************)
\* _calculate_results: {} for an empty history, else the results dict; its
\* metric entries are functions of portfolio_history (ResultsMetrics)
CalculateResults(hist, pv, pos) ==
    IF hist = <<>> THEN [type |-> "EMPTY"]
    ELSE [type |-> "RESULTS", final_value |-> pv, portfolio_history |-> hist,
          positions |-> pos]

\* the metric entries of a results dict: metrics = PerformanceMetrics(
\* portfolio_df) and one entry per method called on it
ResultsMetrics(res) ==
    LET metrics == PerformanceMetrics(res.portfolio_history)
    IN  [total_return |-> total_return(metrics),
         annualized_return |-> annualized_return(metrics),
         sharpe_ratio |-> sharpe_ratio(metrics),
         max_drawdown |-> max_drawdown(metrics),
         volatility |-> volatility(metrics),
         calmar_ratio |-> calmar_ratio(metrics)]

\* a load_data that lets an empty bar set through
load_data_never_raises(rows) == FALSE

\* load_data raises ValueError("No market data loaded") for an empty bar set
load_data_raises(rows) == rows = <<>>

\* run(strategy, ...) up to its for loop, with rows the bar set the loader
\* returns: load_data, strategy.initialize, groupby('date')
RunStep(rows) ==
    /\ pc = "idle"
    /\ market_data' = rows
    /\ IF load_data_raises(rows)
       THEN /\ outcome' = "aborted"
            /\ initCalls' = 0
            /\ UNCHANGED <<pc, days, gsLog>>
       ELSE /\ outcome' = "running"
            /\ initCalls' = 1
            /\ pc' = "loop"
            /\ days' = GroupDates(rows)
            /\ gsLog' = <<>>
    /\ runs' = runs + 1
    /\ lastOp' = [type |-> "RUN", outcome |-> outcome, cash |-> cash,
                  positions |-> positions, history |-> history,
                  events |-> events, results |-> results]
    /\ UNCHANGED <<cfg, strategy, portfolioVars, events, current_time, results, day_bars,
                   dayOrders, fillCount, fillSum, lastPx, lastPut>>

\* run is called with any of the bar sets
CallRun ==
    /\ runs < MaxRuns
    /\ \E rows \in DataSets : RunStep(rows)

\* top of the for loop: the day's MarketEvent is built and enqueued
DayBegin ==
    /\ pc = "loop" /\ days # <<>>
    /\ LET date == Head(days)
           bars == DayBars(DayData(market_data, date))
       IN  /\ current_time' = date
           /\ day_bars' = bars
           /\ events' = Append(events, MarketEvent(date, bars))
    /\ lastPut' = Len(events)
    /\ days' = Tail(days)
    /\ dayOrders' = <<>>
    /\ pc' = "drain"
    /\ lastOp' = Op("PUT")
    /\ UNCHANGED <<cfg, strategy, portfolioVars, market_data, results, outcome, runs,
                   initCalls, gsLog, fillCount, fillSum, lastPx>>

\* _process_events found the queue empty: the day's snapshot
DayEnd ==
    /\ pc = "drain" /\ events = <<>>
    /\ UpdateMarketValue(ClosePrices(day_bars), current_time)
    /\ pc' = "loop"
    /\ dayOrders' = <<>>
    /\ UNCHANGED <<cfg, strategy, events, runVars, gsLog, lastPut>>

\* the for loop is exhausted: results are computed and returned
RunFinish ==
    /\ pc = "loop" /\ days = <<>>
    /\ results' = CalculateResults(history, portfolio_value, positions)
    /\ outcome' = "completed"
    /\ pc' = "idle"
    /\ day_bars' = EmptyMap
    /\ lastOp' = [type |-> "FINISH", previous |-> results]
    /\ UNCHANGED <<cfg, strategy, portfolioVars, events, market_data, current_time, days,
                   runs, initCalls, gsLog, dayOrders, fillCount, fillSum, lastPx,
                   lastPut>>

Next ==
    \/ CallRun
    \/ DayBegin
    \/ HandleMarketEvent
    \/ HandleSignalEvent
    \/ HandleOrderEvent
    \/ HandleFillEvent
    \/ DayEnd
    \/ RunFinish

Spec == Init /\ [][Next]_vars

(***************************************************************************)
(* Portfolio harness: a caller that drives a Portfolio object directly     *)
(***************************************************************************)
\* fills handed to Portfolio.execute_fill: at 100 a share, commission 10
LedgerFills ==
    {FillEvent(1, s, R(q), d, R(100), R(10)) :
        s \in Symbols, d \in {"BUY", "SELL"}, q \in {5, 10}}

\* price maps handed to update_market_value on a date
LedgerPrices(date) ==
    {[s \in S |-> R(CloseOf(s, date))] : S \in SUBSET Symbols}

\* orders handed to Portfolio.can_afford
LedgerOrders ==
    {OrderEvent(1, s, R(10), d) : s \in Symbols, d \in {"BUY", "SELL"}}

LedgerInit == InitWith(LedgerConfigs, {AnyStrategy})

engineVars == <<cfg, strategy, events, runVars, pc, gsLog, dayOrders, lastPut>>

CallExecuteFill ==
    /\ pc = "idle" /\ fillCount < MaxFills
    /\ \E fill \in LedgerFills : ExecuteFill(fill)
    /\ UNCHANGED engineVars

CallUpdateMarketValue ==
    /\ pc = "idle" /\ Len(history) < MaxHistory
    /\ \E prices \in LedgerPrices(Len(history) + 1) :
         UpdateMarketValue(prices, Len(history) + 1)
    /\ UNCHANGED engineVars

CallCanAfford ==
    /\ pc = "idle"
    /\ \E order \in LedgerOrders : CanAfford(order, R(100))
    /\ UNCHANGED engineVars

LedgerNext ==
    \/ CallExecuteFill
    \/ CallUpdateMarketValue
    \/ CallCanAfford

SpecLedger == LedgerInit /\ [][LedgerNext]_vars

(***************************************************************************)
(* Handler harness: a caller that drives the engine's handlers directly,   *)
(* as a unit test does, instead of through run                             *)
(***************************************************************************)
\* signal events handed to _handle_signal_event
UnitSignals ==
    {SignalEvent(1, "A", t, p) : t \in SignalTypes, p \in {NoPrice, Zero, R(50)}}

\* market events put on the queue
UnitMarkets ==
    {MarketEvent(1, [s \in S |-> [close |-> R(CloseOf(s, 1)), src |-> 1]]) :
        S \in {{"A"}, {"B"}}}

\* fills handed to Portfolio.execute_fill to set a position up
UnitFills ==
    {FillEvent(1, "A", R(10), d, R(100), R(10)) : d \in {"BUY", "SELL"}}

\* orders handed to ExecutionHandler.execute_order
UnitOrders ==
    {OrderEvent(1, "A", R(q), d) : q \in {1, 10}, d \in {"BUY", "SELL"}}

UnitInit == InitWith(UnitConfigs, {AnyStrategy})

\* portfolio.execute_fill(fill) called directly
SetUpPosition ==
    /\ pc = "idle" /\ fillCount < MaxFills - 1
    /\ \E fill \in UnitFills : ExecuteFill(fill)
    /\ UNCHANGED engineVars

\* the harness stops feeding the engine once MaxFills fills were applied
UnitBudget == pc = "idle" /\ fillCount < MaxFills

\* _handle_signal_event(event) called directly
CallHandleSignalEvent ==
    /\ UnitBudget /\ Len(events) < MaxQueue
    /\ \E event \in UnitSignals : SignalEventStep(event, events)
    /\ UNCHANGED dayOrders

\* execution_handler.execute_order(order, market_event) called directly
CallExecuteOrder ==
    /\ UnitBudget
    /\ \E order \in UnitOrders, market_event \in UnitMarkets :
         lastOp' = [type |-> "EXECUTE", order |-> order, market |-> market_event,
                    fill |-> execute_order(order, market_event, cfg.commission,
                                           cfg.slippage)]
    /\ UNCHANGED <<cfg, strategy, portfolioVars, events, runVars, pc, gsLog,
                   dayOrders, fillCount, fillSum, lastPx, lastPut>>

\* events.put(market_event)
PutMarketEvent ==
    /\ UnitBudget /\ Len(events) < MaxQueue
    /\ \E event \in UnitMarkets : events' = Append(events, event)
    /\ lastPut' = Len(events)
    /\ lastOp' = Op("PUT")
    /\ UNCHANGED <<cfg, strategy, portfolioVars, runVars, pc, gsLog, dayOrders,
                   fillCount, fillSum, lastPx>>

\* _process_events(strategy) is called
CallProcessEvents ==
    /\ pc = "idle" /\ events # <<>>
    /\ pc' = "drain"
    /\ gsLog' = <<>>
    /\ lastOp' = Op("DRAIN")
    /\ UNCHANGED <<cfg, strategy, portfolioVars, events, runVars, dayOrders,
                   fillCount, fillSum, lastPx, lastPut>>

\* _process_events returns: the queue is empty
ProcessEventsReturn ==
    /\ pc = "drain" /\ events = <<>>
    /\ pc' = "idle"
    /\ dayOrders' = <<>>
    /\ gsLog' = <<>>
    /\ lastOp' = Op("RETURN")
    /\ UNCHANGED <<cfg, strategy, portfolioVars, events, runVars, fillCount, fillSum,
                   lastPx, lastPut>>

UnitNext ==
    \/ SetUpPosition
    \/ CallHandleSignalEvent
    \/ CallExecuteOrder
    \/ PutMarketEvent
    \/ CallProcessEvents
    \/ HandleMarketEvent
    \/ HandleSignalEvent
    \/ HandleOrderEvent
    \/ HandleFillEvent
    \/ ProcessEventsReturn

SpecUnit == UnitInit /\ [][UnitNext]_vars

(***************************************************************************)
(* Repeated-run harness: a caller that calls run on one engine again and   *)
(* again with the same bars and the same deterministic strategy            *)
(***************************************************************************)
TwinInit == InitWith(RunConfigs, Strategies)

\* position in syms of the first symbol the strategy raises for, 0 if none
TwinRaiseAt(syms) ==
    IF \E i \in 1..Len(syms) : strategy[syms[i]].raises
    THEN CHOOSE i \in 1..Len(syms) :
            /\ strategy[syms[i]].raises
            /\ \A j \in 1..(i - 1) : ~strategy[syms[j]].raises
    ELSE 0

\* run is called; every call after the first gets the bars of the first
TwinCallRun ==
    /\ runs < TwinRuns
    /\ \E rows \in DataSets :
         /\ runs = 0 \/ rows = market_data
         /\ RunStep(rows)

\* _handle_market_event with the deterministic strategy
TwinHandleMarketEvent ==
    /\ pc = "drain" /\ events # <<>> /\ Head(events).type = "MARKET"
    /\ MarketEventStep([s \in Symbols |-> strategy[s].signals],
                       TwinRaiseAt(get_symbols(Head(events))))

TwinNext ==
    \/ TwinCallRun
    \/ DayBegin
    \/ TwinHandleMarketEvent
    \/ HandleSignalEvent
    \/ HandleOrderEvent
    \/ HandleFillEvent
    \/ DayEnd
    \/ RunFinish

SpecTwin == TwinInit /\ [][TwinNext]_vars

\* the steps of a run in progress. run is one sequential call: once it is
\* entered, the interpreter takes its next step as long as there is one
RunProgress ==
    \/ DayBegin
    \/ TwinHandleMarketEvent
    \/ HandleSignalEvent
    \/ HandleOrderEvent
    \/ HandleFillEvent
    \/ DayEnd
    \/ RunFinish

\* the strategies that never raise, and those that return one signal for A
\* and raise for B
FairStrategies ==
    {st \in Strategies : \A s \in Symbols : ~st[s].raises}
        \cup {st \in Strategies :
                 /\ ~st["A"].raises /\ Len(st["A"].signals) = 1
                 /\ st["B"].raises}

FairInit == InitWith(RunConfigs, FairStrategies)

\* repeated runs in which a run that was entered keeps stepping; whether run
\* is called again is up to the caller
SpecTwinFair == FairInit /\ [][TwinNext]_vars /\ WF_vars(RunProgress)

(***************************************************************************)
(* Sizing harness: a caller that hands signals to _handle_signal_event,    *)
(* drains the queue with _process_events and takes snapshots with          *)
(* update_market_value, on an engine with a small capital                  *)
(***************************************************************************)
\* capital 100 in one position; the first trades free of commission rate and
\* slippage, the second at 1% each
SizingConfigs ==
    {Config(R(100), Zero, Zero, One, One),
     Config(R(100), Rat(1, 100), Rat(1, 100), One, Rat(1, 2))}

\* signal events handed to _handle_signal_event
SizingSignals ==
    {SignalEvent(1, s, t, NoPrice) : s \in Symbols, t \in RunSignalTypes}

\* strategies that never raise and return at most one signal per bar
SizingStrategies ==
    {st \in Strategies :
        \A s \in Symbols : ~st[s].raises /\ Len(st[s].signals) <= 1}

SizingInit == InitWith(SizingConfigs, SizingStrategies)

\* _handle_signal_event(event) called directly
SizingHandleSignalEvent ==
    /\ UnitBudget /\ Len(events) < MaxQueue
    /\ \E event \in SizingSignals : SignalEventStep(event, events)
    /\ UNCHANGED dayOrders

\* portfolio.update_market_value(current_prices, timestamp) called directly,
\* with the closes of a market event
CallSnapshot ==
    /\ UnitBudget /\ Len(history) < MaxHistory - 1
    /\ \E event \in UnitMarkets :
         UpdateMarketValue(ClosePrices(event.data), Len(history) + 1)
    /\ UNCHANGED engineVars

SizingNext ==
    \/ SizingHandleSignalEvent
    \/ PutMarketEvent
    \/ CallSnapshot
    \/ CallProcessEvents
    \/ TwinHandleMarketEvent
    \/ HandleSignalEvent
    \/ HandleOrderEvent
    \/ HandleFillEvent
    \/ ProcessEventsReturn

SpecSizing == SizingInit /\ [][SizingNext]_vars

(***************************************************************************)
(* Metrics harness: a caller that builds PerformanceMetrics from an equity *)
(* history of its own and calls its methods                                *)
(***************************************************************************)
EquityValues == {Zero, R(50), R(100)}

\* the orders in which n rows of consecutive days can be given
RowOrders(n) ==
    {t \in [1..n -> 1..n] : \A i, j \in 1..n : t[i] = t[j] => i = j}

\* equity histories of up to MaxPoints rows, in any order of their dates
\* (with no rows: a frame that has the columns only)
EquityFrames ==
    UNION {{[i \in 1..n |-> [timestamp |-> t[i], total_value |-> v[i]]] :
                t \in RowOrders(n), v \in [1..n -> EquityValues]} :
           n \in 0..MaxPoints}

\* benchmark return series, indexed by some of the labels 1..MaxPoints
BenchmarkSeries ==
    UNION {[S -> {Zero, Rat(1, 10)}] : S \in SUBSET (1..MaxPoints)}

MetricsInit == InitWith(LedgerConfigs, {AnyStrategy})

\* PerformanceMetrics(rows): the caller builds its metrics object once
NewPerformanceMetrics ==
    /\ pc = "idle"
    /\ lastOp.type = "NONE"
    /\ \E rows \in EquityFrames :
         lastOp' = [type |-> "NEW", metrics |-> PerformanceMetrics(rows)]
    /\ UNCHANGED <<cfg, strategy, portfolioVars, events, runVars, pc, gsLog,
                   dayOrders, fillCount, fillSum, lastPx, lastPut>>

\* the metrics _calculate_results asks for, called on the object built
CallMetrics ==
    /\ pc = "idle"
    /\ lastOp.type \in {"NEW", "METRICS", "BENCHMARK"}
    /\ LET m == lastOp.metrics
       IN  lastOp' = [type |-> "METRICS", metrics |-> m,
                      total_return |-> total_return(m),
                      annualized_return |-> annualized_return(m),
                      sharpe_ratio |-> sharpe_ratio(m),
                      max_drawdown |-> max_drawdown(m),
                      volatility |-> volatility(m),
                      calmar_ratio |-> calmar_ratio(m)]
    /\ UNCHANGED <<cfg, strategy, portfolioVars, events, runVars, pc, gsLog,
                   dayOrders, fillCount, fillSum, lastPx, lastPut>>

\* beta, alpha and information_ratio against a benchmark series, called on
\* the object built
CallBenchmarkMetrics ==
    /\ pc = "idle"
    /\ lastOp.type \in {"NEW", "METRICS", "BENCHMARK"}
    /\ \E benchmark_returns \in BenchmarkSeries :
         LET m == lastOp.metrics
         IN  lastOp' = [type |-> "BENCHMARK", metrics |-> m,
                        benchmark_returns |-> benchmark_returns,
                        beta |-> beta(m, benchmark_returns),
                        alpha |-> alpha(m, benchmark_returns),
                        information_ratio |-> information_ratio(m, benchmark_returns)]
    /\ UNCHANGED <<cfg, strategy, portfolioVars, events, runVars, pc, gsLog,
                   dayOrders, fillCount, fillSum, lastPx, lastPut>>

MetricsNext ==
    \/ NewPerformanceMetrics
    \/ CallMetrics
    \/ CallBenchmarkMetrics

SpecMetrics == MetricsInit /\ [][MetricsNext]_vars

(***************************************************************************)
(* Properties                                                              *)
(***************************************************************************)
MarketCount(q) == Cardinality({i \in 1..Len(q) : q[i].type = "MARKET"})

\* C1: causal ordering. Whenever run enqueues a MarketEvent the queue is
\* empty (nothing derived from an earlier MarketEvent is still waiting), and
\* the queue never holds more than one MarketEvent.
C1_CausalOrdering ==
    /\ lastPut = 0
    /\ MarketCount(events) <= 1

\* C2: no look-ahead. Every generate_signals call of a run is given the
\* date of the day being processed and a bar taken from a row of that date,
\* and the dates passed never go back from one call to the next.
C2_NoLookAhead ==
    /\ \A i \in 1..Len(gsLog) :
         /\ gsLog[i].timestamp = gsLog[i].day
         /\ gsLog[i].bar_date = gsLog[i].timestamp
    /\ \A i, j \in 1..Len(gsLog) :
         i < j => gsLog[i].timestamp <= gsLog[j].timestamp

\* C2 witness: a run whose rows start with a later date than the first
\* simulated day has called generate_signals on two different days.
C2_Witness ==
    /\ pc = "drain"
    /\ market_data # <<>> /\ market_data[1].date > 1
    /\ \E i, j \in 1..Len(gsLog) : gsLog[i].timestamp < gsLog[j].timestamp

\* the symbols held in the ledger
Held(pos) == {s \in DOMAIN pos : pos[s] # Zero}

RECURSIVE LedgerValue(_, _, _)
\* sum of quantity times price over a set of symbols
LedgerValue(pos, px, syms) ==
    IF syms = {} THEN Zero
    ELSE LET s == CHOOSE x \in syms : TRUE
         IN  RAdd(RMul(pos[s], px[s]), LedgerValue(pos, px, syms \ {s}))

\* C3: equity snapshot invariant. The snapshot update_market_value has just
\* appended has total_value = cash + sum of quantity * last known price over
\* the held symbols, also when the day's price map lacks a held symbol; and
\* total_value = cash when every position is flat.
C3_SnapshotInvariant ==
    (lastOp.type = "SNAPSHOT" /\ Held(positions) \subseteq DOMAIN lastPx) =>
        LET snap == history[Len(history)]
        IN  /\ snap.total_value =
                 RAdd(snap.cash, LedgerValue(positions, lastPx, Held(positions)))
            /\ (Held(positions) = {} => snap.total_value = snap.cash)

\* C4: cash round-trip. Cash is the initial capital plus the cash deltas of
\* the fills applied so far; no other operation moves it.
C4_CashRoundTrip ==
    cash = RAdd(cfg.initial_capital, fillSum)

\* C4 witness: a Sell was applied after a Buy, with a snapshot and an
\* affordability query in between.
C4_Witness ==
    /\ fillCount = 2
    /\ lastOp.type = "FILL" /\ lastOp.fill.direction = "SELL"
    /\ RLt(lastOp.cash, cfg.initial_capital)
    /\ history # <<>>
    /\ "B" \in DOMAIN positions /\ positions["B"] = Zero
    /\ cash # cfg.initial_capital

\* C5: execute_fill applies exactly the ledger delta of the fill, and leaves
\* the other symbols and the equity history alone.
C5_ExecuteFillDelta ==
    lastOp.type = "FILL" =>
        LET fill == lastOp.fill
            gross == RMul(fill.quantity, fill.fill_price)
            before == get_position(lastOp.positions, fill.symbol)
        IN  /\ fill.direction = "BUY" =>
                 /\ cash = RSub(lastOp.cash, RAdd(gross, fill.commission))
                 /\ get_position(positions, fill.symbol) = RAdd(before, fill.quantity)
            /\ fill.direction = "SELL" =>
                 /\ cash = RAdd(lastOp.cash, RSub(gross, fill.commission))
                 /\ get_position(positions, fill.symbol) = RSub(before, fill.quantity)
            /\ \A s \in Symbols \ {fill.symbol} :
                 get_position(positions, s) = get_position(lastOp.positions, s)
            /\ history = lastOp.history

\* C5 witness: Buy 10 at 100 with commission 10 from cash 100000 leaves cash
\* 98990 and quantity 10.
C5_Witness ==
    /\ lastOp.type = "FILL"
    /\ lastOp.fill.direction = "BUY" /\ lastOp.fill.quantity = R(10)
    /\ lastOp.cash = R(100000)
    /\ cash = R(98990)
    /\ positions["A"] = R(10)

\* C6: at most one order per symbol per day. Among the OrderEvents the
\* signal router has enqueued since the day's MarketEvent was enqueued, no
\* two are for the same symbol.
C6_OneOrderPerSymbolPerDay ==
    \A s \in Symbols :
        Cardinality({i \in 1..Len(dayOrders) : dayOrders[i].order.symbol = s}) <= 1

\* the quantity the router sizes for the signal event of a recorded call
TargetOf(op) ==
    RDiv(RMul(op.portfolio_value, cfg.max_position_size),
         IF op.event.price = NoPrice \/ op.event.price = Zero THEN R(100)
         ELSE op.event.price)

\* C7: direction resolution of _handle_signal_event against the position p
\* of the signal's symbol: Buy gives a Buy order of target_quantity iff
\* p <= 0; Sell gives a Sell order iff p >= 0, of target_quantity when p = 0
\* and of p when p > 0; Hold gives no order.
C7_DirectionResolution ==
    lastOp.type = "SIGNAL" =>
        LET e == lastOp.event
            p == lastOp.position
            tq == TargetOf(lastOp)
        IN  /\ e.signal_type = 1 =>
                 IF RLeq(p, Zero)
                 THEN lastOp.order = OrderEvent(e.timestamp, e.symbol, tq, "BUY")
                 ELSE lastOp.order = None
            /\ e.signal_type = -1 =>
                 IF RLeq(Zero, p)
                 THEN lastOp.order =
                        OrderEvent(e.timestamp, e.symbol,
                                   IF p = Zero THEN tq ELSE p, "SELL")
                 ELSE lastOp.order = None
            /\ e.signal_type = 0 => lastOp.order = None

\* C7 witness: a Sell signal against a long position gave a Sell order of
\* the whole position, which differs from the target quantity.
C7_Witness ==
    /\ lastOp.type = "SIGNAL"
    /\ lastOp.event.signal_type = -1
    /\ RLt(Zero, lastOp.position)
    /\ lastOp.order # None
    /\ lastOp.order.quantity = lastOp.position
    /\ lastOp.order.quantity # TargetOf(lastOp)

\* the day's drain is over and the snapshot is about to be taken
BeforeSnapshot == pc = "drain" /\ events = <<>>

\* C8: opening a short. On a day whose only order is the Sell order of a
\* signal of that day, sized against a flat position, for a symbol with a
\* close price that day, the position is -target_quantity when the day's
\* snapshot is taken.
C8_OpenShort ==
    (/\ BeforeSnapshot
     /\ Len(dayOrders) = 1
     /\ dayOrders[1].order.direction = "SELL"
     /\ dayOrders[1].order.timestamp = current_time
     /\ dayOrders[1].position = Zero
     /\ dayOrders[1].order.symbol \in DOMAIN day_bars) =>
        get_position(positions, dayOrders[1].order.symbol)
            = RNeg(dayOrders[1].order.quantity)

\* C9: covering a short. A Buy signal handled while the position p of its
\* symbol is negative gives a Buy order of quantity exactly |p|.
C9_CoverShort ==
    (/\ lastOp.type = "SIGNAL"
     /\ lastOp.event.signal_type = 1
     /\ RLt(lastOp.position, Zero)) =>
        /\ lastOp.order # None
        /\ lastOp.order.direction = "BUY"
        /\ lastOp.order.quantity = RAbs(lastOp.position)

\* the order of the recorded _handle_order_event call is a Buy that found a
\* MarketEvent with a close price for its symbol and costs more than the cash
Unaffordable(op) ==
    /\ op.type = "ORDER"
    /\ op.order.direction = "BUY"
    /\ ScanMarket(op.queue) # None
    /\ get_price(ScanMarket(op.queue), op.order.symbol) # NoPrice
    /\ RLt(op.cash,
           RMul(RMul(op.order.quantity, get_price(ScanMarket(op.queue), op.order.symbol)),
                RAdd(One, cfg.commission)))

\* C10: insufficient funds. A Buy order whose cost quantity * close *
\* (1 + commission_rate) exceeds the cash is dropped: no fill is made for it
\* and the queue is the scanned queue with nothing added, cash and positions
\* are as before, and the drain goes on without raising.
C10_InsufficientFunds ==
    Unaffordable(lastOp) =>
        /\ lastOp.verdict = "cannot_afford"
        /\ lastOp.fill = None
        /\ events = ScanRequeue(lastOp.queue)
        /\ cash = lastOp.cash
        /\ positions = lastOp.positions
        /\ pc = "drain"

\* C10 witness: such an order was handled with cash that covers the shares
\* but not the commission on top of them.
C10_Witness ==
    /\ Unaffordable(lastOp)
    /\ RLeq(RMul(lastOp.order.quantity,
                 get_price(ScanMarket(lastOp.queue), lastOp.order.symbol)),
            lastOp.cash)
    /\ lastOp.verdict = "cannot_afford"

\* C11: can_afford is a pure query. It returns cash >= quantity * price *
\* (1 + commission_rate) for a Buy and position >= quantity for a Sell, and
\* leaves cash, the positions map with its set of keys, portfolio_value and
\* the equity history as they were.
C11_CanAffordPure ==
    lastOp.type = "QUERY" =>
        LET order == lastOp.order
            cost == RMul(RMul(order.quantity, lastOp.price), RAdd(One, cfg.commission))
        IN  /\ order.direction = "BUY" => (lastOp.result <=> RLeq(cost, lastOp.cash))
            /\ order.direction = "SELL" =>
                 (lastOp.result <=>
                    RLeq(order.quantity, get_position(lastOp.positions, order.symbol)))
            /\ cash = lastOp.cash
            /\ positions = lastOp.positions
            /\ DOMAIN positions = DOMAIN lastOp.positions
            /\ portfolio_value = lastOp.portfolio_value
            /\ history = lastOp.history

\* the number of days the for loop of the current run has gone through
DaysProcessed == Len(GroupDates(market_data)) - Len(days)

\* C12: one snapshot per day, after the day's fills. Between two days of a
\* run the equity history has exactly as many snapshots as days were
\* processed, and a fill is never applied when the snapshot of its
\* timestamp is already in the history.
C12_OneSnapshotPerDay ==
    /\ (pc = "loop" /\ outcome = "running") => Len(history) = DaysProcessed
    /\ (lastOp.type = "FILL" /\ outcome = "running") =>
          \A i \in 1..Len(history) : history[i].timestamp # lastOp.fill.timestamp

\* number of generate_signals calls of the current run for a symbol on a date
Calls(s, d) ==
    Cardinality({i \in 1..Len(gsLog) :
                    gsLog[i].symbol = s /\ gsLog[i].timestamp = d})

\* the day d has a bar of the symbol s in the loaded bar set
HasBar(s, d) ==
    \E i \in 1..Len(market_data) :
        market_data[i].ticker = s /\ market_data[i].date = d

\* the dates the current run is through with: all of them once run has
\* ended, else those the for loop has left behind
DatesDone ==
    IF pc = "idle" THEN {market_data[i].date : i \in 1..Len(market_data)}
    ELSE IF pc = "loop"
    THEN {d \in {market_data[i].date : i \in 1..Len(market_data)} :
            \A j \in 1..Len(days) : days[j] # d}
    ELSE {d \in {market_data[i].date : i \in 1..Len(market_data)} :
            d < current_time}

\* C13: strategy call protocol. A run that got its bars has called
\* initialize exactly once, before any generate_signals call; no (day,
\* symbol) pair is passed to generate_signals twice or without a bar; and
\* every pair with a bar on a day the run is through with was passed once.
C13_StrategyCallProtocol ==
    (runs > 0 /\ market_data # <<>>) =>
        /\ initCalls = 1
        /\ \A s \in Symbols, d \in Dates :
             /\ Calls(s, d) <= 1
             /\ Calls(s, d) = 1 => HasBar(s, d)
             /\ (d \in DatesDone /\ HasBar(s, d)) => Calls(s, d) = 1

\* C14: per-symbol failure isolation. When a generate_signals call has
\* raised while the day's MarketEvent was handled, the exception is caught:
\* the run is still running and in the day's drain, and generate_signals
\* was called for every symbol with a bar that day.
C14_FailureIsolation ==
    (lastOp.type = "MARKET" /\ lastOp.raised /\ runs > 0) =>
        /\ outcome = "running"
        /\ pc = "drain"
        /\ \A s \in Symbols :
             HasBar(s, current_time) => Calls(s, current_time) = 1

\* C15: empty input is fatal. A run call whose loader returns no rows
\* raises: initialize is not called, nothing is enqueued, no snapshot is
\* recorded and results are what they were; on a fresh engine they are unset.
C15_EmptyInputFatal ==
    (lastOp.type = "RUN" /\ market_data = <<>>) =>
        /\ outcome = "aborted" /\ pc = "idle"
        /\ initCalls = 0
        /\ events = lastOp.events
        /\ history = lastOp.history
        /\ results = lastOp.results
        /\ runs = 1 => (results = None /\ history = <<>> /\ events = <<>>)

\* C15 witness: the first run call of an engine was given an empty bar set
\* and has raised.
C15_Witness ==
    /\ lastOp.type = "RUN" /\ market_data = <<>>
    /\ runs = 1 /\ outcome = "aborted"
    /\ results = None /\ history = <<>>

\* C16: invalid configuration is fatal. On an engine whose configuration
\* Config.validate rejects, every run call aborts: no run is ever running
\* or completed, no snapshot is recorded and no result is returned.
C16_InvalidConfigFatal ==
    ~validate(cfg) =>
        /\ outcome \in {"none", "aborted"}
        /\ history = <<>>
        /\ results = None

\* C17: Portfolio lifecycle per run. A run call on a fresh engine, or on an
\* engine whose previous run completed, starts from cash = initial_capital,
\* an empty ledger and an empty equity history; and the history a completed
\* run returns has one snapshot per day of that run.
C17_PortfolioPerRun ==
    /\ (lastOp.type = "RUN" /\ lastOp.outcome \in {"none", "completed"}) =>
          /\ cash = cfg.initial_capital
          /\ positions = EmptyMap
          /\ history = <<>>
    /\ (lastOp.type = "FINISH" /\ results.type = "RESULTS") =>
          Len(results.portfolio_history) = Len(GroupDates(market_data))

\* C18: determinism. When a run given the same bars, the same
\* configuration and the same deterministic strategy as an earlier
\* completed run completes, it returns the results the earlier one
\* returned: the same equity history, final value and final positions.
C18_Determinism ==
    (lastOp.type = "FINISH" /\ lastOp.previous # None) =>
        results = lastOp.previous

\* C19: the commission floor is the configured minimum. The commission of
\* every fill execute_order makes is max(|quantity * fill_price| *
\* commission_rate, min_commission of the configuration).
C19_CommissionFloor ==
    (lastOp.type = "ORDER" /\ lastOp.fill # None) =>
        lastOp.fill.commission =
            RMax(RMul(RAbs(RMul(lastOp.fill.quantity, lastOp.fill.fill_price)),
                      cfg.commission),
                 cfg.min_commission)

\* the fill of a recorded execution is priced at the close moved against
\* the trader by the slippage rate
AdverseFill(order, close, fill) ==
    /\ fill # None
    /\ order.direction = "BUY" =>
         /\ fill.fill_price = RMul(close, RAdd(One, cfg.slippage))
         /\ RLeq(close, fill.fill_price)
    /\ order.direction = "SELL" =>
         /\ fill.fill_price = RMul(close, RSub(One, cfg.slippage))
         /\ RLeq(fill.fill_price, close)

\* C20: slippage is adverse. execute_order prices a Buy at close * (1 +
\* slippage), never below the close, and a Sell at close * (1 - slippage),
\* never above it; without a close for the order's symbol it returns no
\* fill. The same holds for the fills _handle_order_event enqueues.
C20_SlippageAdverse ==
    /\ lastOp.type = "EXECUTE" =>
          LET close == get_price(lastOp.market, lastOp.order.symbol)
          IN  IF close = NoPrice THEN lastOp.fill = None
              ELSE AdverseFill(lastOp.order, close, lastOp.fill)
    /\ (lastOp.type = "ORDER" /\ lastOp.fill # None) =>
          AdverseFill(lastOp.order,
                      get_price(ScanMarket(lastOp.queue), lastOp.order.symbol),
                      lastOp.fill)

\* C20 witness: with a slippage rate above 0, a Buy was executed above the
\* close.
C20_Witness ==
    /\ lastOp.type = "EXECUTE"
    /\ RLt(Zero, cfg.slippage)
    /\ lastOp.order.direction = "BUY"
    /\ lastOp.fill # None
    /\ RLt(get_price(lastOp.market, lastOp.order.symbol), lastOp.fill.fill_price)

\* C25: strict FIFO processing. The scan of _handle_order_event leaves the
\* queue with the same events in the same relative order as before the call,
\* apart from the fill it may append at the tail
C25_StrictFifo ==
    lastOp.type = "ORDER" =>
        events = IF lastOp.fill = None THEN lastOp.queue
                 ELSE Append(lastOp.queue, lastOp.fill)

\* C26: every OrderEvent enqueued by _handle_signal_event has quantity > 0
C26_OrderQuantityPositive ==
    (lastOp.type = "SIGNAL" /\ lastOp.order # None) =>
        RLt(Zero, lastOp.order.quantity)

\* the close a fill of execute_order was computed from
FillClose(fill) ==
    RDiv(fill.fill_price,
         IF fill.direction = "BUY" THEN RAdd(One, cfg.slippage)
         ELSE RSub(One, cfg.slippage))

\* the fill is what execute_order returns for its order at that close, and
\* can_afford accepts the order at that close with the cash before the fill
AffordedBuy(op) ==
    /\ op.type = "FILL"
    /\ op.fill.direction = "BUY"
    /\ op.fill.commission = Commission(op.fill.quantity, op.fill.fill_price,
                                       cfg.commission)
    /\ can_afford(op.cash, op.positions, cfg.commission,
                  OrderEvent(op.fill.timestamp, op.fill.symbol, op.fill.quantity,
                             "BUY"),
                  FillClose(op.fill))

\* C30: the affordability gate keeps cash non-negative. From cash >= 0, a Buy
\* order that can_afford accepts at a close, executed by execute_order against
\* the same close and applied by execute_fill, leaves cash >= 0
C30_AffordableBuyKeepsCash ==
    (AffordedBuy(lastOp) /\ RLeq(Zero, lastOp.cash)) => RLeq(Zero, cash)

\* a Sell fill of exactly the long quantity held before it
FullClose(op) ==
    /\ op.type = "FILL"
    /\ op.fill.direction = "SELL"
    /\ RLt(Zero, get_position(op.positions, op.fill.symbol))
    /\ op.fill.quantity = get_position(op.positions, op.fill.symbol)

\* C27: no zero-quantity residue. After a full close is applied by
\* execute_fill the positions map has no entry for the symbol, and in every
\* ledger state no key of the positions map is mapped to 0
C27_NoZeroResidue ==
    /\ FullClose(lastOp) => lastOp.fill.symbol \notin DOMAIN positions
    /\ \A s \in DOMAIN positions : positions[s] # Zero

\* C28: orders never fill inside a run. Whenever _handle_order_event scans
\* the queue during run, the queue holds no MarketEvent, so the order is
\* dropped; no FillEvent is ever enqueued, execute_fill is never invoked, and
\* every snapshot has cash = initial_capital and an empty positions ledger
C28_NoFillInRun ==
    /\ lastOp.type = "ORDER" =>
         /\ ScanMarket(lastOp.queue) = None
         /\ lastOp.verdict = "no_market"
         /\ lastOp.fill = None
    /\ \A i \in 1..Len(events) : events[i].type # "FILL"
    /\ fillCount = 0
    /\ \A i \in 1..Len(history) :
         /\ history[i].cash = cfg.initial_capital
         /\ history[i].positions = EmptyMap

\* the strategy raises for no symbol
NeverRaises == \A s \in Symbols : ~strategy[s].raises

\* C29: the day's drain terminates. With a strategy that returns a finite
\* list of signals per call and does not raise, _process_events eventually
\* finds the queue empty, and a run over a finite bar sequence eventually
\* completes with results assigned
C29_DrainTerminates ==
    /\ (NeverRaises /\ pc = "drain") ~> (pc = "loop" /\ events = <<>>)
    /\ (NeverRaises /\ outcome = "running")
           ~> (outcome = "completed" /\ results # None)

\* a run of two days with a strategy that returns MaxSignals signals for a
\* bar has completed
C29_Witness ==
    /\ NeverRaises
    /\ \E s \in Symbols : Len(strategy[s].signals) = MaxSignals
    /\ outcome = "completed" /\ lastOp.type = "FINISH"
    /\ results # None /\ results.type = "RESULTS"
    /\ Len(results.portfolio_history) >= 2

\* the strategy returns no signals on any day and never raises
NoSignals ==
    \A s \in Symbols : ~strategy[s].raises /\ strategy[s].signals = <<>>

\* C21: in a run whose strategy returns no signals on any day every snapshot
\* has cash = total_value = initial_capital and position_value = 0, and the
\* metrics of the completed run are volatility 0, sharpe_ratio 0 and
\* max_drawdown 0.
C21_NoSignalsFlatMetrics ==
    NoSignals =>
        /\ \A i \in 1..Len(history) :
               /\ history[i].cash = cfg.initial_capital
               /\ history[i].total_value = cfg.initial_capital
               /\ history[i].position_value = Zero
        /\ (lastOp.type = "FINISH" /\ results.type = "RESULTS") =>
               /\ ResultsMetrics(results).volatility = Zero
               /\ ResultsMetrics(results).sharpe_ratio = Zero
               /\ ResultsMetrics(results).max_drawdown = Zero

\* every total_value of the equity sequence is strictly positive
AllPositive(m) == \A i \in 1..Len(m) : RLt(Zero, m[i].total_value)

\* the equity sequence, in the order of its dates, never falls
NonDecreasing(m) ==
    \A i \in 2..Len(m) : RLeq(m[i - 1].total_value, m[i].total_value)

C23_NoDivisionByZero ==
    /\ lastOp.type \in {"METRICS", "BENCHMARK"} =>
           Zero \notin Denominators(lastOp.metrics)
    /\ lastOp.type = "BENCHMARK" =>
           /\ Zero \notin BenchmarkDenominators(lastOp.metrics,
                                                  lastOp.benchmark_returns)
           /\ lastOp.alpha # ZeroDivisionError

\* C24: when the daily returns and the benchmark series have fewer than 2
\* aligned points (an empty benchmark included), beta, alpha and
\* information_ratio each return 0 and none of them raises.
C24_BenchmarkBelowTwoPoints ==
    (/\ lastOp.type = "BENCHMARK"
     /\ Len(AlignedLabels(lastOp.metrics, lastOp.benchmark_returns)) < 2) =>
        /\ lastOp.beta = Zero
        /\ lastOp.alpha = Zero
        /\ lastOp.information_ratio = Zero

====
